---- MODULE Spec2Model ----
(***************************************************************************)
(* Date filter evaluation (flowy-grid/src/services/filter/impls/           *)
(* date_filter.rs) and the FieldType registry (flowy-grid/src/entities/    *)
(* field_entities.rs) of the grid backend.                                 *)
(*                                                                         *)
(* Both are pure functions.  Spec draws a filter and a cell in Init and    *)
(* applies GridDateFilter::is_visible or DateTypeOption::apply_filter to   *)
(* them; FieldSpec draws a FieldType and a FieldTypeRevision code and      *)
(* applies the conversions and the kind predicates.                        *)
(***************************************************************************)
EXTENDS Integers, Sequences, FiniteSets

VARIABLES
    filter,          \* GridDateFilter { condition, start, end }
    any_cell_data,   \* AnyCellData { data, field_type }
    cell_timestamp,  \* the i64 handed to is_visible (an Option until drawn)
    result,          \* what the filter call produced
    field_type,      \* a FieldType value
    ty,              \* a FieldTypeRevision (u8) code
    rev_out,         \* Option<FieldTypeRevision> produced by From<FieldType>
    type_out,        \* Option<FieldType> produced by From<FieldTypeRevision>
    kinds,           \* the eight kind predicates evaluated on field_type
    cell_width,      \* Option<i32> produced by default_cell_width
    field_rev,       \* the FieldRevision handed to Field::from
    field,           \* the Field it produced
    payload,         \* the payload handed to try_into
    params,          \* the Result try_into produced
    pc               \* the call that has been made

vars == << filter, any_cell_data, cell_timestamp, result,
           field_type, ty, rev_out, type_out, kinds, cell_width, field_rev, field,
           payload, params, pc >>

filterVars == << filter, any_cell_data, cell_timestamp, result >>
fieldVars == << field_type, ty, rev_out, type_out, kinds, cell_width, field_rev, field >>
payloadVars == << payload, params >>

----------------------------------------------------------------------------
(* Bounds of the model *)

\* cell and operand timestamps range over -MaxTimestamp .. MaxTimestamp
MaxTimestamp == 2

\* largest value of a FieldTypeRevision, which is a u8
U8Max == 255

\* type_option_data holds at most MaxDataLen bytes
MaxDataLen == 1

Timestamps == (0 - MaxTimestamp) .. MaxTimestamp

----------------------------------------------------------------------------
(* Option<T> *)

None == << >>
Some(x) == << x >>
is_none(o) == o = None
is_some(o) == o # None
\* Option::unwrap panics on None and yields the value otherwise
unwrap_panics(o) == o = None
unwrap(o) == o[1]
OptionOf(S) == {None} \cup {Some(x) : x \in S}

----------------------------------------------------------------------------
(* Outcomes of a call *)

Pending == [tag |-> "Pending", value |-> FALSE]
Returned(b) == [tag |-> "Return", value |-> b]
Ok(b) == [tag |-> "Ok", value |-> b]
Err(b) == [tag |-> "Err", value |-> b]
Panicked == [tag |-> "Panic", value |-> FALSE]


----------------------------------------------------------------------------
(* FieldType *)

FieldType ==
    {"RichText", "Number", "DateTime", "SingleSelect", "MultiSelect", "Checkbox", "URL"}

FieldTypeRevision == 0 .. U8Max

\* the discriminants of #[repr(u8)] enum FieldType
Discriminant(t) ==
    CASE t = "RichText" -> 0
      [] t = "Number" -> 1
      [] t = "DateTime" -> 2
      [] t = "SingleSelect" -> 3
      [] t = "MultiSelect" -> 4
      [] t = "Checkbox" -> 5
      [] t = "URL" -> 6

\* impl From<FieldType> for FieldTypeRevision: ty as u8
FieldTypeRevision_from(t) == Discriminant(t) % (U8Max + 1)

\* FieldType::from that decodes an unknown code as the last variant
FieldType_from_unknown_as_last(code) ==
    CASE code = 0 -> "RichText"
      [] code = 1 -> "Number"
      [] code = 2 -> "DateTime"
      [] code = 3 -> "SingleSelect"
      [] code = 4 -> "MultiSelect"
      [] code = 5 -> "Checkbox"
      [] OTHER -> "URL"

\* FieldType::from with the two select codes exchanged
FieldType_from_swapped(code) ==
    CASE code = 0 -> "RichText"
      [] code = 1 -> "Number"
      [] code = 2 -> "DateTime"
      [] code = 3 -> "MultiSelect"
      [] code = 4 -> "SingleSelect"
      [] code = 5 -> "Checkbox"
      [] code = 6 -> "URL"
      [] OTHER -> "RichText"

\* impl From<FieldTypeRevision> for FieldType
FieldType_from(code) ==
    CASE code = 0 -> "RichText"
      [] code = 1 -> "Number"
      [] code = 2 -> "DateTime"
      [] code = 3 -> "SingleSelect"
      [] code = 4 -> "MultiSelect"
      [] code = 5 -> "Checkbox"
      [] code = 6 -> "URL"
      [] OTHER -> "RichText"

\* default_cell_width without the wider date column
default_cell_width_uniform(self) == 150

\* FieldType::default_cell_width
default_cell_width(self) == IF self = "DateTime" THEN 180 ELSE 150

is_number(self) == self = "Number"
is_text(self) == self = "RichText"
is_checkbox(self) == self = "Checkbox"
is_date(self) == self = "DateTime"
is_single_select(self) == self = "SingleSelect"
is_multi_select(self) == self = "MultiSelect"
is_url(self) == self = "URL"
\* is_select_option that forgets the single select
is_select_option_multi_only(self) == self = "MultiSelect"

is_select_option(self) == self = "MultiSelect" \/ self = "SingleSelect"

----------------------------------------------------------------------------
(* Field and FieldRevision *)

\* identifiers: grid ids and field ids, the empty one included
IdStrings == {"", "grid", "field"}

Names == {"", "Name"}

Widths == {default_cell_width(t) : t \in FieldType}

FieldRevision ==
    [id : IdStrings, name : Names, desc : {""}, field_type_rev : FieldTypeRevision,
     frozen : BOOLEAN, visibility : BOOLEAN, width : Widths, is_primary : BOOLEAN]

Field ==
    [id : IdStrings, name : Names, desc : {""}, field_type : FieldType,
     frozen : BOOLEAN, visibility : BOOLEAN, width : Widths, is_primary : BOOLEAN]

\* impl From<FieldRevision> for Field
Field_from(rev) ==
    [id |-> rev.id,
     name |-> rev.name,
     desc |-> rev.desc,
     field_type |-> FieldType_from(rev.field_type_rev),
     frozen |-> rev.frozen,
     visibility |-> rev.visibility,
     width |-> rev.width,
     is_primary |-> rev.is_primary]

----------------------------------------------------------------------------
(* Payloads and their conversion to params *)

\* Vec<u8>
Bytes == UNION {[1 .. n -> {0, U8Max}] : n \in 0 .. MaxDataLen}
is_empty(bytes) == Len(bytes) = 0

\* NotEmptyStr::parse
NotEmptyStr_parse(str) == IF str = "" THEN Err("empty") ELSE Ok(str)

\* Option::map(FieldTypeRevision::from)
map_FieldTypeRevision_from(o) ==
    IF is_none(o) THEN None ELSE Some(FieldTypeRevision_from(o[1]))

EditFieldPayload ==
    [grid_id : IdStrings, field_id : IdStrings, field_type : FieldType,
     create_if_not_exist : BOOLEAN]

\* impl TryInto<EditFieldParams> for EditFieldPayload
EditFieldParams_try_into(self) ==
    LET grid_id == NotEmptyStr_parse(self.grid_id)
        field_id == NotEmptyStr_parse(self.field_id)
    IN  IF grid_id.tag = "Err" THEN Err("GridIdIsEmpty")
        ELSE IF field_id.tag = "Err" THEN Err("FieldIdIsEmpty")
        ELSE Ok([grid_id |-> grid_id.value,
                 field_id |-> field_id.value,
                 field_type |-> self.field_type])

InsertFieldPayload ==
    [grid_id : IdStrings, field : Field, type_option_data : Bytes,
     start_field_id : OptionOf(IdStrings)]

\* impl TryInto<InsertFieldParams> for InsertFieldPayload
InsertFieldParams_try_into(self) ==
    LET grid_id == NotEmptyStr_parse(self.grid_id)
        checked == NotEmptyStr_parse(self.field.id)
        start == IF is_none(self.start_field_id)
                 THEN Ok(None)
                 ELSE LET id == NotEmptyStr_parse(self.start_field_id[1])
                      IN  IF id.tag = "Err" THEN Err("FieldIdIsEmpty") ELSE Ok(Some(id.value))
    IN  IF grid_id.tag = "Err" THEN Err("GridIdIsEmpty")
        ELSE IF checked.tag = "Err" THEN Err("FieldIdIsEmpty")
        ELSE IF start.tag = "Err" THEN start
        ELSE Ok([grid_id |-> grid_id.value,
                 field |-> self.field,
                 type_option_data |-> self.type_option_data,
                 start_field_id |-> start.value])

UpdateFieldTypeOptionPayload ==
    [grid_id : IdStrings, field_id : IdStrings, type_option_data : Bytes]

\* impl TryInto<UpdateFieldTypeOptionParams> for UpdateFieldTypeOptionPayload
UpdateFieldTypeOptionParams_try_into(self) ==
    LET grid_id == NotEmptyStr_parse(self.grid_id)
        checked == NotEmptyStr_parse(self.field_id)
    IN  IF grid_id.tag = "Err" THEN Err("GridIdIsEmpty")
        ELSE IF checked.tag = "Err" THEN Err("FieldIdIsEmpty")
        ELSE Ok([grid_id |-> grid_id.value,
                 field_id |-> self.field_id,
                 type_option_data |-> self.type_option_data])

FieldChangesetPayload ==
    [field_id : IdStrings, grid_id : IdStrings, name : OptionOf(Names),
     desc : OptionOf({""}), field_type : OptionOf(FieldType), frozen : OptionOf(BOOLEAN),
     visibility : OptionOf(BOOLEAN), width : OptionOf(Widths),
     type_option_data : OptionOf(Bytes)]

\* the conversion without the check of an empty type_option_data
FieldChangesetParams_try_into_unchecked(self) ==
    LET grid_id == NotEmptyStr_parse(self.grid_id)
        field_id == NotEmptyStr_parse(self.field_id)
    IN  IF grid_id.tag = "Err" THEN Err("GridIdIsEmpty")
        ELSE IF field_id.tag = "Err" THEN Err("FieldIdIsEmpty")
        ELSE Ok([field_id |-> field_id.value,
                 grid_id |-> grid_id.value,
                 name |-> self.name,
                 desc |-> self.desc,
                 field_type |-> map_FieldTypeRevision_from(self.field_type),
                 frozen |-> self.frozen,
                 visibility |-> self.visibility,
                 width |-> self.width,
                 type_option_data |-> self.type_option_data])

\* impl TryInto<FieldChangesetParams> for FieldChangesetPayload
FieldChangesetParams_try_into(self) ==
    LET grid_id == NotEmptyStr_parse(self.grid_id)
        field_id == NotEmptyStr_parse(self.field_id)
        field_type_rev == map_FieldTypeRevision_from(self.field_type)
    IN  IF grid_id.tag = "Err" THEN Err("GridIdIsEmpty")
        ELSE IF field_id.tag = "Err" THEN Err("FieldIdIsEmpty")
        ELSE IF is_some(self.type_option_data) /\ is_empty(self.type_option_data[1])
        THEN Err("TypeOptionDataIsEmpty")
        ELSE Ok([field_id |-> field_id.value,
                 grid_id |-> grid_id.value,
                 name |-> self.name,
                 desc |-> self.desc,
                 field_type |-> field_type_rev,
                 frozen |-> self.frozen,
                 visibility |-> self.visibility,
                 width |-> self.width,
                 type_option_data |-> self.type_option_data])

FieldIdentifierPayload == [field_id : IdStrings, grid_id : IdStrings]

\* the conversion with the field id checked before the grid id
FieldIdentifier_try_into_field_first(self) ==
    LET grid_id == NotEmptyStr_parse(self.grid_id)
        field_id == NotEmptyStr_parse(self.field_id)
    IN  IF field_id.tag = "Err" THEN Err("FieldIdIsEmpty")
        ELSE IF grid_id.tag = "Err" THEN Err("GridIdIsEmpty")
        ELSE Ok([grid_id |-> grid_id.value, field_id |-> field_id.value])

\* impl TryInto<FieldIdentifier> for FieldIdentifierPayload
FieldIdentifier_try_into(self) ==
    LET grid_id == NotEmptyStr_parse(self.grid_id)
        field_id == NotEmptyStr_parse(self.field_id)
    IN  IF grid_id.tag = "Err" THEN Err("GridIdIsEmpty")
        ELSE IF field_id.tag = "Err" THEN Err("FieldIdIsEmpty")
        ELSE Ok([grid_id |-> grid_id.value, field_id |-> field_id.value])

----------------------------------------------------------------------------
(* GridDateFilter and AnyCellData *)

DateFilterCondition ==
    {"DateIs", "DateBefore", "DateAfter", "DateOnOrBefore", "DateOnOrAfter",
     "DateWithIn", "DateIsEmpty"}

GridDateFilter ==
    [condition : DateFilterCondition, start : OptionOf(Timestamps), end : OptionOf(Timestamps)]

\* the stored cell string either parses as an i64 (Some) or does not (None)
AnyCellData == [data : OptionOf(Timestamps), field_type : FieldType]

\* AnyCellData::is_date
AnyCellData_is_date(cell) == is_date(cell.field_type)

\* From<AnyCellData> for DateTimestamp: an unparseable cell is the empty date 0
DateTimestamp_from(cell) == IF is_some(cell.data) THEN cell.data[1] ELSE 0

\* the match of GridDateFilter::is_visible
MatchCondition(self, v, start_timestamp) ==
    CASE self.condition = "DateIs" -> v = start_timestamp
      [] self.condition = "DateBefore" -> v < start_timestamp
      [] self.condition = "DateAfter" -> v > start_timestamp
      [] self.condition = "DateOnOrBefore" -> v <= start_timestamp
      [] self.condition = "DateOnOrAfter" -> v >= start_timestamp
      [] self.condition = "DateWithIn" ->
            IF is_some(self.end)
            THEN v >= start_timestamp /\ v <= self.end[1]
            ELSE FALSE
      [] self.condition = "DateIsEmpty" -> v = 0

\* is_visible without the early return on a missing start
is_visible_unguarded(self, v) ==
    IF unwrap_panics(self.start)
    THEN Panicked
    ELSE Returned(MatchCondition(self, v, unwrap(self.start)))

\* DateWithIn that takes a missing end for an open range
MatchWithinOpenEnd(self, v, s) ==
    IF self.condition = "DateWithIn"
    THEN v >= s /\ (is_some(self.end) => v <= self.end[1])
    ELSE MatchCondition(self, v, s)

is_visible_within_open_end(self, v) ==
    IF is_none(self.start)
    THEN Returned(FALSE)
    ELSE Returned(MatchWithinOpenEnd(self, v, unwrap(self.start)))

\* DateIs compared with <= instead of ==
MatchIsAsOnOrBefore(self, v, s) ==
    IF self.condition = "DateIs" THEN v <= s ELSE MatchCondition(self, v, s)

is_visible_is_as_on_or_before(self, v) ==
    IF is_none(self.start)
    THEN Returned(FALSE)
    ELSE Returned(MatchIsAsOnOrBefore(self, v, unwrap(self.start)))

\* DateAfter compared with >= instead of >
MatchAfterInclusive(self, v, s) ==
    IF self.condition = "DateAfter" THEN v >= s ELSE MatchCondition(self, v, s)

is_visible_after_inclusive(self, v) ==
    IF is_none(self.start)
    THEN Returned(FALSE)
    ELSE Returned(MatchAfterInclusive(self, v, unwrap(self.start)))

\* DateOnOrBefore compared with < instead of <=
MatchOnOrBeforeStrict(self, v, s) ==
    IF self.condition = "DateOnOrBefore" THEN v < s ELSE MatchCondition(self, v, s)

is_visible_on_or_before_strict(self, v) ==
    IF is_none(self.start)
    THEN Returned(FALSE)
    ELSE Returned(MatchOnOrBeforeStrict(self, v, unwrap(self.start)))

\* GridDateFilter::is_visible
is_visible(self, v) ==
    IF is_none(self.start)
    THEN Returned(FALSE)
    ELSE IF unwrap_panics(self.start)
         THEN Panicked
         ELSE LET start_timestamp == unwrap(self.start)
              IN  Returned(MatchCondition(self, v, start_timestamp))

\* apply_filter without the pass-through of cells that are not dates
apply_filter_ignores_type(cell, f) ==
    LET r == is_visible(f, DateTimestamp_from(cell))
    IN  IF r.tag = "Panic" THEN Panicked ELSE Ok(r.value)

\* DateTypeOption::apply_filter
apply_filter(cell, f) ==
    IF ~AnyCellData_is_date(cell)
    THEN Ok(TRUE)
    ELSE LET r == is_visible(f, DateTimestamp_from(cell))
         IN  IF r.tag = "Panic" THEN Panicked ELSE Ok(r.value)

----------------------------------------------------------------------------
(* The filter calls: Spec *)

FieldIdle ==
    /\ field_type = "RichText"
    /\ ty = 0
    /\ rev_out = None
    /\ type_out = None
    /\ kinds = << >>
    /\ cell_width = None
    /\ field_rev = None
    /\ field = None

PayloadIdle ==
    /\ payload = None
    /\ params = Pending

FilterIdle ==
    /\ filter = [condition |-> "DateIs", start |-> None, end |-> None]
    /\ any_cell_data = [data |-> None, field_type |-> "RichText"]
    /\ cell_timestamp = None
    /\ result = Pending

Init ==
    /\ filter \in GridDateFilter
    /\ any_cell_data \in AnyCellData
    /\ cell_timestamp = None
    /\ result = Pending
    /\ FieldIdle
    /\ PayloadIdle
    /\ pc = "ready"

\* a direct call filter.is_visible(v), as the unit tests make it
IsVisible ==
    /\ pc = "ready"
    /\ \E v \in Timestamps :
         /\ cell_timestamp' = Some(v)
         /\ result' = is_visible(filter, v)
    /\ pc' = "is_visible"
    /\ UNCHANGED << filter, any_cell_data, fieldVars, payloadVars >>

\* type_option.apply_filter(any_cell_data, &filter)
ApplyFilter ==
    /\ pc = "ready"
    /\ result' = apply_filter(any_cell_data, filter)
    /\ pc' = "apply_filter"
    /\ UNCHANGED << filter, any_cell_data, cell_timestamp, fieldVars, payloadVars >>

Next == IsVisible \/ ApplyFilter

Spec == Init /\ [][Next]_vars

----------------------------------------------------------------------------
(* The FieldType calls: FieldSpec *)

FieldInit ==
    /\ field_type \in FieldType
    /\ ty \in FieldTypeRevision
    /\ rev_out = None
    /\ type_out = None
    /\ kinds = << >>
    /\ cell_width = None
    /\ field_rev = None
    /\ field = None
    /\ FilterIdle
    /\ PayloadIdle
    /\ pc = "ready"

\* FieldTypeRevision::from(field_type)
IntoRevision ==
    /\ pc = "ready"
    /\ rev_out' = Some(FieldTypeRevision_from(field_type))
    /\ pc' = "into_rev"
    /\ UNCHANGED << field_type, ty, type_out, kinds, cell_width, field_rev, field >>
    /\ UNCHANGED << filterVars, payloadVars >>

\* FieldType::from of the code IntoRevision produced
BackFromRevision ==
    /\ pc = "into_rev"
    /\ type_out' = Some(FieldType_from(rev_out[1]))
    /\ pc' = "round_trip"
    /\ UNCHANGED << field_type, ty, rev_out, kinds, cell_width, field_rev, field >>
    /\ UNCHANGED << filterVars, payloadVars >>

\* FieldType::from(ty) of a persisted code
FromRevision ==
    /\ pc = "ready"
    /\ type_out' = Some(FieldType_from(ty))
    /\ pc' = "from_rev"
    /\ UNCHANGED << field_type, ty, rev_out, kinds, cell_width, field_rev, field >>
    /\ UNCHANGED << filterVars, payloadVars >>

\* the kind predicates of field_type
KindPredicates ==
    /\ pc = "ready"
    /\ kinds' = [is_text |-> is_text(field_type),
                 is_number |-> is_number(field_type),
                 is_date |-> is_date(field_type),
                 is_single_select |-> is_single_select(field_type),
                 is_multi_select |-> is_multi_select(field_type),
                 is_checkbox |-> is_checkbox(field_type),
                 is_url |-> is_url(field_type),
                 is_select_option |-> is_select_option(field_type)]
    /\ pc' = "kinds"
    /\ UNCHANGED << field_type, ty, rev_out, type_out, cell_width, field_rev, field >>
    /\ UNCHANGED << filterVars, payloadVars >>

\* field_type.default_cell_width()
DefaultCellWidth ==
    /\ pc = "ready"
    /\ cell_width' = Some(default_cell_width(field_type))
    /\ pc' = "cell_width"
    /\ UNCHANGED << field_type, ty, rev_out, type_out, kinds, field_rev, field >>
    /\ UNCHANGED << filterVars, payloadVars >>

\* FieldTypeRevision::from of the FieldType FromRevision decoded
BackIntoRevision ==
    /\ pc = "from_rev"
    /\ rev_out' = Some(FieldTypeRevision_from(type_out[1]))
    /\ pc' = "re_encoded"
    /\ UNCHANGED << field_type, ty, type_out, kinds, cell_width, field_rev, field >>
    /\ UNCHANGED << filterVars, payloadVars >>

\* Field::from(field_rev) of a persisted revision whose type code is ty
FieldFromRevision ==
    /\ pc = "ready"
    /\ \E rev \in FieldRevision :
         /\ rev.field_type_rev = ty
         /\ field_rev' = rev
         /\ field' = Field_from(rev)
    /\ pc' = "field_from_rev"
    /\ UNCHANGED << field_type, ty, rev_out, type_out, kinds, cell_width >>
    /\ UNCHANGED << filterVars, payloadVars >>

FieldNext ==
    \/ IntoRevision
    \/ BackFromRevision
    \/ FromRevision
    \/ BackIntoRevision
    \/ KindPredicates
    \/ DefaultCellWidth
    \/ FieldFromRevision

FieldSpec == FieldInit /\ [][FieldNext]_vars

----------------------------------------------------------------------------
(* The payload conversions: PayloadSpec *)

PayloadInit ==
    /\ PayloadIdle
    /\ FilterIdle
    /\ FieldIdle
    /\ pc = "ready"

\* EditFieldPayload::try_into() -> Result<EditFieldParams, ErrorCode>
TryIntoEditFieldParams ==
    /\ pc = "ready"
    /\ \E p \in EditFieldPayload :
         /\ payload' = p
         /\ params' = EditFieldParams_try_into(p)
    /\ pc' = "edit_field"
    /\ UNCHANGED << filterVars, fieldVars >>

\* InsertFieldPayload::try_into()
TryIntoInsertFieldParams ==
    /\ pc = "ready"
    /\ \E p \in InsertFieldPayload :
         /\ payload' = p
         /\ params' = InsertFieldParams_try_into(p)
    /\ pc' = "insert_field"
    /\ UNCHANGED << filterVars, fieldVars >>

\* UpdateFieldTypeOptionPayload::try_into()
TryIntoUpdateFieldTypeOptionParams ==
    /\ pc = "ready"
    /\ \E p \in UpdateFieldTypeOptionPayload :
         /\ payload' = p
         /\ params' = UpdateFieldTypeOptionParams_try_into(p)
    /\ pc' = "update_type_option"
    /\ UNCHANGED << filterVars, fieldVars >>

\* FieldChangesetPayload::try_into()
TryIntoFieldChangesetParams ==
    /\ pc = "ready"
    /\ \E p \in FieldChangesetPayload :
         /\ payload' = p
         /\ params' = FieldChangesetParams_try_into(p)
    /\ pc' = "field_changeset"
    /\ UNCHANGED << filterVars, fieldVars >>

\* FieldIdentifierPayload::try_into()
TryIntoFieldIdentifier ==
    /\ pc = "ready"
    /\ \E p \in FieldIdentifierPayload :
         /\ payload' = p
         /\ params' = FieldIdentifier_try_into(p)
    /\ pc' = "field_identifier"
    /\ UNCHANGED << filterVars, fieldVars >>

PayloadNext ==
    \/ TryIntoEditFieldParams
    \/ TryIntoInsertFieldParams
    \/ TryIntoUpdateFieldTypeOptionParams
    \/ TryIntoFieldChangesetParams
    \/ TryIntoFieldIdentifier

PayloadSpec == PayloadInit /\ [][PayloadNext]_vars

----------------------------------------------------------------------------
(* Properties of GridDateFilter::is_visible, checked under Spec *)

Called == pc = "is_visible"
V == cell_timestamp[1]
S == filter.start[1]
E == filter.end[1]

\* C1: a DateIsEmpty filter is visible exactly when the cell timestamp is 0,
\* whatever start and end are (absent or present).
C1_DateIsEmptyIffZero ==
    (Called /\ filter.condition = "DateIsEmpty") => result = Returned(V = 0)

\* C2: every condition other than DateIsEmpty is not visible when start is
\* absent, for every cell timestamp and every end.
C2_MissingStartNotVisible ==
    (Called /\ filter.condition # "DateIsEmpty" /\ is_none(filter.start))
        => result = Returned(FALSE)

C2_Witness ==
    /\ Called
    /\ filter = [condition |-> "DateOnOrAfter", start |-> None, end |-> Some(1)]
    /\ cell_timestamp = Some(0)
    /\ result = Returned(FALSE)

\* C3: apply_filter on cell data that is not date-typed returns Ok(true) for
\* every filter, also for one whose start is missing.
C3_NonDatePassesThrough ==
    (pc = "apply_filter" /\ ~AnyCellData_is_date(any_cell_data)) => result = Ok(TRUE)

C3_Witness ==
    /\ pc = "apply_filter"
    /\ any_cell_data.field_type = "Number"
    /\ filter.condition = "DateIs"
    /\ is_none(filter.start)
    /\ result = Ok(TRUE)

\* C4: DateWithIn with start s present is visible iff s <= v <= e when end e is
\* present (so never when s > e), and never visible when end is absent.
C4_DateWithIn ==
    (Called /\ filter.condition = "DateWithIn" /\ is_some(filter.start))
        => result = Returned(IF is_some(filter.end) THEN S <= V /\ V <= E ELSE FALSE)

C4_Witness ==
    /\ Called
    /\ filter = [condition |-> "DateWithIn", start |-> Some(0 - 1), end |-> Some(1)]
    /\ cell_timestamp = Some(1)
    /\ result = Returned(TRUE)

\* C5: DateIs with start s present is visible iff v = s, whatever end is.
C5_DateIs ==
    (Called /\ filter.condition = "DateIs" /\ is_some(filter.start))
        => result = Returned(V = S)

C5_Witness ==
    /\ Called
    /\ filter.condition = "DateIs"
    /\ filter.start = Some(1)
    /\ is_some(filter.end)
    /\ cell_timestamp = Some(1)
    /\ result = Returned(TRUE)

\* C6: with start s present DateBefore is visible iff v < s and DateAfter iff
\* v > s; neither is visible at v = s, and DateAfter is not visible for v = 0
\* when s > 0.
C6_StrictConditions ==
    (Called /\ is_some(filter.start)) =>
        /\ filter.condition = "DateBefore" => result = Returned(V < S)
        /\ filter.condition = "DateAfter" => result = Returned(V > S)
        /\ (filter.condition \in {"DateBefore", "DateAfter"} /\ V = S)
               => result = Returned(FALSE)
        /\ (filter.condition = "DateAfter" /\ V = 0 /\ S > 0) => result = Returned(FALSE)

C6_Witness ==
    /\ Called
    /\ filter.condition = "DateAfter"
    /\ filter.start = Some(1)
    /\ cell_timestamp = Some(1)
    /\ result = Returned(FALSE)

\* C7: with start s present DateOnOrBefore is visible iff v <= s and
\* DateOnOrAfter iff v >= s; each equals its strict condition OR DateIs.
C7_InclusiveConditions ==
    (Called /\ is_some(filter.start)) =>
        LET As(c) == is_visible([filter EXCEPT !.condition = c], V).value
        IN  /\ filter.condition = "DateOnOrBefore" =>
                 /\ result = Returned(V <= S)
                 /\ result.value = (As("DateBefore") \/ As("DateIs"))
            /\ filter.condition = "DateOnOrAfter" =>
                 /\ result = Returned(V >= S)
                 /\ result.value = (As("DateAfter") \/ As("DateIs"))

C7_Witness ==
    /\ Called
    /\ filter.condition = "DateOnOrBefore"
    /\ filter.start = Some(1)
    /\ cell_timestamp = Some(1)
    /\ result = Returned(TRUE)

\* C8: apply_filter is total: for every cell (date-typed or not, empty or not)
\* and every filter it returns Ok with a boolean, never Err and never a panic.
C8_ApplyFilterTotal ==
    pc = "apply_filter" => (result.tag = "Ok" /\ result.value \in BOOLEAN)

C8_Witness ==
    /\ pc = "apply_filter"
    /\ any_cell_data = [data |-> None, field_type |-> "DateTime"]
    /\ is_none(filter.start)
    /\ filter.condition = "DateBefore"
    /\ result = Ok(FALSE)

----------------------------------------------------------------------------
(* Properties of FieldType, checked under FieldSpec *)

\* C9: the ordinals are RichText=0, Number=1, DateTime=2, SingleSelect=3,
\* MultiSelect=4, Checkbox=5, URL=6, pairwise distinct, and converting a
\* FieldType to its code and back yields the same FieldType.
C9_OrdinalsRoundTrip ==
    /\ pc \in {"into_rev", "round_trip"} =>
         /\ rev_out = Some([RichText |-> 0, Number |-> 1, DateTime |-> 2,
                            SingleSelect |-> 3, MultiSelect |-> 4, Checkbox |-> 5,
                            URL |-> 6][field_type])
         /\ \A other \in FieldType \ {field_type} :
                FieldTypeRevision_from(other) # rev_out[1]
    /\ pc = "round_trip" => type_out = Some(field_type)

C9_Witness ==
    /\ pc = "round_trip"
    /\ field_type = "MultiSelect"
    /\ rev_out = Some(4)
    /\ type_out = Some("MultiSelect")

SevenKinds ==
    {"is_text", "is_number", "is_date", "is_single_select", "is_multi_select",
     "is_checkbox", "is_url"}

\* C10: for every FieldType exactly one of the seven kind predicates is true,
\* and is_select_option is true iff is_single_select or is_multi_select is.
C10_KindsPartition ==
    pc = "kinds" =>
        /\ Cardinality({k \in SevenKinds : kinds[k]}) = 1
        /\ kinds.is_select_option = (kinds.is_single_select \/ kinds.is_multi_select)

C10_Witness ==
    /\ pc = "kinds"
    /\ field_type = "SingleSelect"
    /\ kinds.is_single_select
    /\ kinds.is_select_option

\* C11: default_cell_width is 180 for DateTime and 150 for each of the six
\* other field types, hence always positive.
C11_DefaultCellWidth ==
    pc = "cell_width" =>
        /\ field_type = "DateTime" => cell_width = Some(180)
        /\ field_type # "DateTime" => cell_width = Some(150)
        /\ cell_width[1] > 0

C11_Witness ==
    /\ pc = "cell_width"
    /\ field_type = "DateTime"
    /\ cell_width = Some(180)

\* C13: FieldType::from never fails: every code outside 0..6 decodes to
\* RichText, so code -> type -> code is the identity on 0..6 and yields 0 for
\* every other code, and Field::from(FieldRevision) always has one of the seven
\* types.
C13_DecodeNeverFails ==
    /\ pc \in {"from_rev", "re_encoded"} =>
         /\ type_out[1] \in FieldType
         /\ ty \notin 0 .. 6 => type_out = Some("RichText")
    /\ pc = "re_encoded" => rev_out = Some(IF ty \in 0 .. 6 THEN ty ELSE 0)
    /\ pc = "field_from_rev" =>
         /\ field \in Field
         /\ ty \notin 0 .. 6 => field.field_type = "RichText"

C13_Witness ==
    /\ pc = "re_encoded"
    /\ ty = 200
    /\ type_out = Some("RichText")
    /\ rev_out = Some(0)

----------------------------------------------------------------------------
(* Properties of the payload conversions, checked under PayloadSpec *)

Converted ==
    pc \in {"edit_field", "insert_field", "update_type_option", "field_changeset",
            "field_identifier"}

PayloadFieldId == IF pc = "insert_field" THEN payload.field.id ELSE payload.field_id
ParamsFieldId == IF pc = "insert_field" THEN params.value.field.id ELSE params.value.field_id

\* C12: the five conversions that validate both identifiers check the grid id
\* first: an empty grid_id gives Err(GridIdIsEmpty) even when the field id is
\* empty too, a non-empty grid_id with an empty field id gives
\* Err(FieldIdIsEmpty), and an Ok result carries the payload's grid id and
\* field id.
C12_IdentifierErrors ==
    Converted =>
        /\ payload.grid_id = "" => params = Err("GridIdIsEmpty")
        /\ (payload.grid_id # "" /\ PayloadFieldId = "") => params = Err("FieldIdIsEmpty")
        /\ params.tag = "Ok" =>
              /\ params.value.grid_id = payload.grid_id
              /\ ParamsFieldId = PayloadFieldId

C12_Witness ==
    /\ pc = "field_identifier"
    /\ payload = [field_id |-> "", grid_id |-> ""]
    /\ params = Err("GridIdIsEmpty")

\* C14: a FieldChangesetPayload with non-empty grid_id and field_id converts
\* to Err(TypeOptionDataIsEmpty) when type_option_data is present and empty,
\* and otherwise to Ok with name, desc, frozen, visibility, width and
\* type_option_data unchanged and field_type mapped to its ordinal code
\* (absent stays absent); the identifier errors come before
\* TypeOptionDataIsEmpty.
C14_FieldChangeset ==
    pc = "field_changeset" =>
        IF payload.grid_id = "" \/ payload.field_id = ""
        THEN params.tag = "Err" /\ params.value \in {"GridIdIsEmpty", "FieldIdIsEmpty"}
        ELSE IF payload.type_option_data = Some(<< >>)
        THEN params = Err("TypeOptionDataIsEmpty")
        ELSE params =
               Ok([field_id |-> payload.field_id,
                   grid_id |-> payload.grid_id,
                   name |-> payload.name,
                   desc |-> payload.desc,
                   field_type |->
                       IF payload.field_type = None
                       THEN None
                       ELSE Some([RichText |-> 0, Number |-> 1, DateTime |-> 2,
                                  SingleSelect |-> 3, MultiSelect |-> 4, Checkbox |-> 5,
                                  URL |-> 6][payload.field_type[1]]),
                   frozen |-> payload.frozen,
                   visibility |-> payload.visibility,
                   width |-> payload.width,
                   type_option_data |-> payload.type_option_data])

C14_Witness ==
    /\ pc = "field_changeset"
    /\ payload.grid_id = "grid"
    /\ payload.field_id = "field"
    /\ payload.type_option_data = Some(<< >>)
    /\ payload.field_type = Some("URL")
    /\ params = Err("TypeOptionDataIsEmpty")

====
